---- MODULE Spec2Model ----
(***************************************************************************)
(* A model of src/app.rs: the Leptos router with its two pages, the        *)
(* counter signal of HomePage, the Leptos -> Bevy TextEvent bridge of      *)
(* CanvasPage, and the Bevy app built by init_bevy_app (setup_scene in     *)
(* Startup, the bridge import in PreUpdate, set_text in Update).           *)
(*                                                                         *)
(* Calls into leptos, leptos_bevy_canvas, crossbeam and bevy are modelled  *)
(* at their call sites by the contract of the callee: a FIFO channel, the  *)
(* double-buffered Events<E> with an EventReader cursor, and the order of  *)
(* the Main schedule (Startup once, then First, PreUpdate, Update).        *)
(***************************************************************************)
EXTENDS Integers, Sequences, FiniteSets, TLC

\* ------------------------------------------------------------------ bounds

\* Sends per mounted canvas page.
MaxSends == 3
\* Frames per simulation instance.
MaxTicks == 3
\* Clicks per starting point of the counter.
MaxClicks == 3

\* The texts an input event can carry.
Texts == {"hello", "a", "b", "c"}

\* URL paths, as their lists of segments: "/", "/canvas", "/other", "/canvas/extra".
Paths == {<<>>, <<"canvas">>, <<"other">>, <<"canvas", "extra">>}

\* ------------------------------------------------------------------ state

VARIABLES
    target,          \* the compilation target: "wasm32" (browser) or "other" (server)
    overflow_checks, \* the build profile: integer overflow panics (debug) or wraps (release)
    path,            \* the current URL path
    view,            \* what <Routes> renders for it
    count,           \* HomePage's RwSignal
    clicks0,         \* ghost: click events fired on the button before the first state
    clicks,          \* ghost: click events fired on the button since then
    panicked,        \* "none", or the handler that panicked
    sim,             \* the Bevy app: "Unbuilt", "Built", "Running", "TornDown"
    chan,            \* the bridge channel: TextEvents sent and not yet received
    events,          \* the app's Events<TextEvent> resource
    cursor,          \* set_text's EventReader: the count of events it has read
    scene,           \* the entities spawned by this repository's systems
    startup_runs,    \* ghost: runs of the Startup schedule
    log,             \* the texts set_text has logged, oldest first
    ticks,           \* ghost: frames run by this app
    sent,            \* ghost: every text handed to send, oldest first
    batch,           \* ghost: the texts handed to send since the last frame
    frame_sent,      \* ghost: batch as it stood when the last frame began
    frame_obs,       \* ghost: the texts set_text logged in the last frame
    pre_start,       \* ghost: the texts handed to send before the first frame
    late_sent,       \* ghost: the texts handed to send after the receiver was dropped
    log_at_teardown  \* ghost: log as it stood when the receiver was dropped

ui_vars == <<target, overflow_checks, path, view, count, clicks0, clicks>>
bevy_vars == <<sim, chan, events, cursor, scene, startup_runs, log, ticks>>
ghost_vars == <<sent, batch, frame_sent, frame_obs, pre_start, late_sent, log_at_teardown>>
vars == <<ui_vars, panicked, bevy_vars, ghost_vars>>

\* ------------------------------------------------------------------ routing

HomePageView == {"h1:Welcome to Leptos!", "button:Click Me", "a:/canvas"}

CanvasPageView(t) ==
    IF t = "wasm32"
    THEN {"h2:Bevy Canvas Integration", "input:text", "canvas:bevy_canvas"}
    ELSE {"em:Bevy Canvas is only available on the client side."}

FallbackView == {"Page not found."}

\* A bug: a route matches any path that starts with its segment.
Routes_prefix(p, t) ==
    IF p = <<>> THEN HomePageView
    ELSE IF Head(p) = "canvas" THEN CanvasPageView(t)
    ELSE FallbackView

\* <Routes fallback>: the first route whose StaticSegment matches the whole path.
Routes(p, t) ==
    IF p = <<>> THEN HomePageView
    ELSE IF p = <<"canvas">> THEN CanvasPageView(t)
    ELSE FallbackView

\* ------------------------------------------------------------------ counter

I32_MAX == 2147483647
I32_MIN == -I32_MAX - 1

\* The counter after c0 clicks, c0 <= I32_MAX: 0 at first, and close to the
\* largest value of the signal's type.
ClickStarts == {0, I32_MAX - 1}

\* A bug: the increment saturates.
on_click_saturating(c, checks) ==
    [count |-> IF c = I32_MAX THEN c ELSE c + 1, panic |-> FALSE]

\* *count.write() += 1 on an i32: overflow panics with overflow checks and
\* wraps without them.
on_click(c, checks) ==
    IF c < I32_MAX THEN [count |-> c + 1, panic |-> FALSE]
    ELSE IF checks THEN [count |-> c, panic |-> TRUE]
    ELSE [count |-> I32_MIN, panic |-> FALSE]

\* ------------------------------------------------------------------ bridge

TextEvent(text) == [text |-> text]

\* The receiving side exists: the receiver held by the init closure, then the
\* one imported into the app.
RxAlive(s) == s \in {"Unbuilt", "Built", "Running"}

\* A bug: the newest event is received first.
send_lifo(ch, alive, ev) ==
    IF alive THEN [res |-> "Ok", chan |-> <<ev>> \o ch]
    ELSE [res |-> "Err", chan |-> ch]

\* Sender::send: the event joins the queue, or comes back in an Err when no
\* receiver is left.
send(ch, alive, ev) ==
    IF alive THEN [res |-> "Ok", chan |-> Append(ch, ev)]
    ELSE [res |-> "Err", chan |-> ch]

\* A bug: the result of send is unwrapped.
on_input_raises_unwrap(res) == res = "Err"

\* on_input: .ok() turns the Result into an Option that is dropped.
on_input_raises(res) == FALSE

\* A bug: the app receives from a channel of its own, made when it is built.
import_event_from_leptos_fresh(ch) == <<>>

\* init_bevy_app imports the receiver made by CanvasPage: the app receives from
\* the channel the sender has been writing to, with what it holds.
import_event_from_leptos(ch) == ch

\* ------------------------------------------------------------------ Events<TextEvent>

EventsNew == [a |-> <<>>, a_start |-> 0, b |-> <<>>, b_start |-> 0, count |-> 0]

\* Events::update, run in First: the older buffer is dropped.
EventsUpdate(E) ==
    [a |-> E.b, a_start |-> E.b_start, b |-> <<>>, b_start |-> E.count, count |-> E.count]

RECURSIVE EventsSendBatch(_, _)
EventsSendBatch(E, evs) ==
    IF evs = <<>> THEN E
    ELSE EventsSendBatch([E EXCEPT !.b = Append(@, Head(evs)), !.count = @ + 1], Tail(evs))

Clip(n, len) == IF n < 0 THEN 0 ELSE IF n > len THEN len ELSE n

\* A bug: a drain that receives one event per frame.
drain_one(ch, E) ==
    IF ch = <<>> THEN [chan |-> ch, events |-> E]
    ELSE [chan |-> Tail(ch), events |-> EventsSendBatch(E, <<Head(ch)>>)]

\* import_event_from_leptos: every frame, all the events the channel holds are
\* received, oldest first, and written to Events<TextEvent>.
drain(ch, E) == [chan |-> <<>>, events |-> EventsSendBatch(E, ch)]

\* The events an EventReader at cursor c has not read, oldest first.
Unread(E, c) ==
    SubSeq(E.a, Clip(c - E.a_start, Len(E.a)) + 1, Len(E.a))
        \o SubSeq(E.b, Clip(c - E.b_start, Len(E.b)) + 1, Len(E.b))

RECURSIVE TextsOf(_)
TextsOf(evs) == IF evs = <<>> THEN <<>> ELSE <<Head(evs).text>> \o TextsOf(Tail(evs))

\* A bug: set_text reads both buffers from their start, whatever it has read.
set_text_no_cursor(E, c) == [logged |-> TextsOf(E.a \o E.b), cursor |-> E.count]

\* set_text: logs the text of every event its reader has not read.
set_text(E, c) == [logged |-> TextsOf(Unread(E, c)), cursor |-> E.count]

\* ------------------------------------------------------------------ scene

\* Lengths in tenths of a unit, colours in tenths.
Cube == [kind |-> "cube", size |-> <<10, 10, 10>>, base_color |-> <<3, 6, 9>>,
         translation |-> <<0, 5, 0>>]
Light == [kind |-> "point_light", intensity |-> 1500, shadows_enabled |-> TRUE,
          range |-> 20, translation |-> <<40, 80, 40>>]
Camera == [kind |-> "camera", translation |-> <<30, 30, 60>>, looking_at |-> <<0, 0, 0>>]

setup_scene(sc) == sc \o <<Cube, Light, Camera>>

\* ------------------------------------------------------------------ frames

\* A bug: setup_scene is added to Update.
RunStartup_every_frame(s) == TRUE

\* The Startup schedule runs in the app's first frame only.
RunStartup(s) == s = "Built"

\* A bug: set_text runs before the import of the frame.
Frame_update_first(ch, E, c) ==
    LET E1 == EventsUpdate(E)
        r == set_text(E1, c)
        d == drain(ch, E1)
    IN  [chan |-> d.chan, events |-> d.events, cursor |-> r.cursor, logged |-> r.logged]

\* One frame of the Main schedule: First (Events::update), PreUpdate (the
\* import from Leptos), Update (set_text).
Frame(ch, E, c) ==
    LET E1 == EventsUpdate(E)
        d == drain(ch, E1)
        r == set_text(d.events, c)
    IN  [chan |-> d.chan, events |-> d.events, cursor |-> r.cursor, logged |-> r.logged]

\* ------------------------------------------------------------------ initial state

BevyInit ==
    /\ sim = "Unbuilt"
    /\ chan = <<>>
    /\ events = EventsNew
    /\ cursor = 0
    /\ scene = <<>>
    /\ startup_runs = 0
    /\ log = <<>>
    /\ ticks = 0

GhostInit ==
    /\ sent = <<>>
    /\ batch = <<>>
    /\ frame_sent = <<>>
    /\ frame_obs = <<>>
    /\ pre_start = <<>>
    /\ late_sent = <<>>
    /\ log_at_teardown = <<>>

Init ==
    /\ target \in {"wasm32", "other"}
    /\ overflow_checks \in BOOLEAN
    /\ path = <<>>
    /\ view = Routes(path, target)
    /\ clicks0 \in (IF target = "wasm32" THEN ClickStarts ELSE {0})
    /\ clicks = 0
    /\ count = clicks0
    /\ panicked = "none"
    /\ BevyInit
    /\ GhostInit

\* ------------------------------------------------------------------ actions

Interactive == target = "wasm32" /\ panicked = "none"

\* The router renders another path. The page that was mounted is dropped with
\* its signal, its sender and its canvas; a page mounts in its first state.
Navigate(p) ==
    /\ panicked = "none"
    /\ p # path
    /\ path' = p
    /\ view' = Routes(p, target)
    /\ count' = 0
    /\ clicks0' = 0
    /\ clicks' = 0
    /\ sim' = "Unbuilt"
    /\ chan' = <<>>
    /\ events' = EventsNew
    /\ cursor' = 0
    /\ scene' = <<>>
    /\ startup_runs' = 0
    /\ log' = <<>>
    /\ ticks' = 0
    /\ sent' = <<>>
    /\ batch' = <<>>
    /\ frame_sent' = <<>>
    /\ frame_obs' = <<>>
    /\ pre_start' = <<>>
    /\ late_sent' = <<>>
    /\ log_at_teardown' = <<>>
    /\ UNCHANGED <<target, overflow_checks, panicked>>

\* A click on HomePage's button.
Click ==
    /\ Interactive
    /\ view = HomePageView
    /\ clicks < MaxClicks
    /\ LET r == on_click(count, overflow_checks)
       IN  /\ count' = r.count
           /\ panicked' = IF r.panic THEN "on_click" ELSE "none"
    /\ clicks' = clicks + 1
    /\ UNCHANGED <<target, overflow_checks, path, view, clicks0, bevy_vars, ghost_vars>>

\* An input event on CanvasPage's text input, carrying text t.
Input(t) ==
    /\ Interactive
    /\ view = CanvasPageView("wasm32")
    /\ Len(sent) < MaxSends
    /\ LET r == send(chan, RxAlive(sim), TextEvent(t))
       IN  /\ chan' = r.chan
           /\ panicked' = IF on_input_raises(r.res) THEN "on_input" ELSE "none"
    /\ sent' = Append(sent, t)
    /\ batch' = Append(batch, t)
    /\ pre_start' = IF ticks = 0 THEN Append(pre_start, t) ELSE pre_start
    /\ late_sent' = IF RxAlive(sim) THEN late_sent ELSE Append(late_sent, t)
    /\ UNCHANGED <<ui_vars, sim, events, cursor, scene, startup_runs, log, ticks,
                   frame_sent, frame_obs, log_at_teardown>>

\* <BevyCanvas> calls its init closure: init_bevy_app builds the app around a
\* clone of the receiver.
InitBevy ==
    /\ Interactive
    /\ view = CanvasPageView("wasm32")
    /\ sim = "Unbuilt"
    /\ sim' = "Built"
    /\ chan' = import_event_from_leptos(chan)
    /\ events' = EventsNew
    /\ cursor' = 0
    /\ UNCHANGED <<ui_vars, panicked, scene, startup_runs, log, ticks, ghost_vars>>

\* One frame of the app.
Tick ==
    /\ Interactive
    /\ sim \in {"Built", "Running"}
    /\ ticks < MaxTicks
    /\ LET f == Frame(chan, events, cursor)
       IN  /\ chan' = f.chan
           /\ events' = f.events
           /\ cursor' = f.cursor
           /\ log' = log \o f.logged
           /\ frame_obs' = f.logged
    /\ scene' = IF RunStartup(sim) THEN setup_scene(scene) ELSE scene
    /\ startup_runs' = IF RunStartup(sim) THEN startup_runs + 1 ELSE startup_runs
    /\ sim' = "Running"
    /\ ticks' = ticks + 1
    /\ frame_sent' = batch
    /\ batch' = <<>>
    /\ UNCHANGED <<ui_vars, panicked, sent, pre_start, late_sent, log_at_teardown>>

\* The app ends while its page stays mounted: the app is dropped with its
\* receiver, its event queue and its scene, and what the channel held with it.
Teardown ==
    /\ Interactive
    /\ sim \in {"Built", "Running"}
    /\ sim' = "TornDown"
    /\ chan' = <<>>
    /\ events' = EventsNew
    /\ cursor' = 0
    /\ scene' = <<>>
    /\ log_at_teardown' = log
    /\ UNCHANGED <<ui_vars, panicked, startup_runs, log, ticks,
                   sent, batch, frame_sent, frame_obs, pre_start, late_sent>>

Next ==
    \/ \E p \in Paths : Navigate(p)
    \/ Click
    \/ \E t \in Texts : Input(t)
    \/ InitBevy
    \/ Tick
    \/ Teardown

Spec == Init /\ [][Next]_vars

\* ------------------------------------------------------------------ properties

IsPrefix(s, t) == Len(s) <= Len(t) /\ SubSeq(t, 1, Len(s)) = s

SceneKinds == [i \in 1..Len(scene) |-> scene[i].kind]

\* C1: the texts set_text logs in a frame are the texts sent since the frame
\* before it, in the order they were sent.
C1_FifoPerFrame == ticks > 0 => frame_obs = frame_sent

C1_Witness == frame_sent = <<"a", "b", "c">> /\ frame_obs = <<"a", "b", "c">>

\* C2: whatever the interleaving of sends and frames, every text sent to a
\* live receiver is logged once or still waits in the channel or the event
\* queue: the log, then the unread events, then the channel, make up the
\* sends, so the log is a prefix of the sends without a repeat or a gap.
C2_ExactlyOnce ==
    /\ RxAlive(sim) => log \o TextsOf(Unread(events, cursor)) \o TextsOf(chan) = sent
    /\ late_sent = <<>> => IsPrefix(log, sent)

C2_Witness ==
    /\ ticks >= 2
    /\ Len(log) >= 2
    /\ frame_obs # <<>>
    /\ Len(frame_obs) < Len(log)
    /\ chan # <<>>

\* C3: a send after the receiver was dropped raises nothing in on_input,
\* changes nothing in the UI, and its text reaches neither the channel, nor the
\* event queue, nor the log.
C3_LateSendSilent ==
    /\ [](panicked # "on_input")
    /\ [](sim = "TornDown" => chan = <<>> /\ log = log_at_teardown)
    /\ [][sim = "TornDown" /\ Len(sent') > Len(sent) =>
            /\ panicked' = "none"
            /\ UNCHANGED <<ui_vars, chan, events, cursor, log, frame_obs>>]_vars

C3_Witness == sim = "TornDown" /\ late_sent # <<>> /\ log # <<>> /\ panicked = "none"

\* C4: after k clicks the count is k, for every k.
C4_CountIsClicks ==
    view = HomePageView =>
        /\ panicked = "none"
        /\ clicks <= I32_MAX - clicks0
        /\ count = clicks0 + clicks

\* C5: a frame imports from the channel before set_text runs, so what was sent
\* before a frame began is logged by the end of that frame.
C5_SameFrame ==
    sim = "Running" => Unread(events, cursor) = <<>> /\ log \o batch = sent

C5_Witness ==
    sim = "Running" /\ ticks = 1 /\ sent = <<"hello">> /\ frame_obs = <<"hello">>

\* C6: a frame leaves the channel empty until the next send, and a frame that
\* follows no send logs nothing, whatever earlier frames logged.
C6_DrainEmpties ==
    /\ RxAlive(sim) => TextsOf(chan) = batch
    /\ ticks > 0 /\ frame_sent = <<>> => frame_obs = <<>>

C6_Witness ==
    /\ ticks >= 2
    /\ frame_sent = <<>>
    /\ frame_obs = <<>>
    /\ events.a # <<>>
    /\ log # <<>>

\* C7: setup_scene runs once, in the first frame, and from then on the scene
\* is the cube, the light and the camera.
C7_SceneFixed ==
    /\ sim \in {"Unbuilt", "Built"} => startup_runs = 0 /\ scene = <<>>
    /\ sim = "Running" =>
        /\ startup_runs = 1
        /\ SceneKinds = <<"cube", "point_light", "camera">>
        /\ scene = <<Cube, Light, Camera>>

C7_Witness == sim = "Running" /\ ticks >= 2 /\ log # <<>> /\ Len(scene) = 3

\* C8: "/" renders the counter page alone, "/canvas" the canvas page alone,
\* and any other path the fallback text alone.
C8_RoutingExclusive ==
    /\ path = <<>> => view = HomePageView
    /\ path = <<"canvas">> => view = CanvasPageView(target)
    /\ path \notin {<<>>, <<"canvas">>} => view = FallbackView
    /\ Cardinality({v \in {HomePageView, CanvasPageView(target), FallbackView} :
                        v \cap view # {}}) = 1

C8_Witness == path = <<"canvas", "extra">> /\ view = {"Page not found."}

\* C10: a send before the first frame is enabled and is buffered, also before
\* the app is built, and the first frame logs these texts in order.
C10_BufferedBeforeStart ==
    /\ ticks = 0 /\ RxAlive(sim) => TextsOf(chan) = pre_start
    /\ ticks = 1 => frame_obs = pre_start
    /\ ticks >= 1 => IsPrefix(pre_start, log)
    /\ (/\ Interactive
        /\ view = CanvasPageView("wasm32")
        /\ sim \in {"Unbuilt", "Built"}
        /\ Len(sent) < MaxSends) => \A t \in Texts : ENABLED Input(t)

C10_Witness ==
    /\ ticks = 1
    /\ Len(pre_start) = 2
    /\ pre_start[1] # pre_start[2]
    /\ frame_obs = pre_start

====
